---------------------------- MODULE Spec2Model ----------------------------
(***************************************************************************)
(* Model of src/index.tsx: the pay calculator                              *)
(* (calculateFinancialsForPerson), the recomputation effect that stores    *)
(* its results, the input handlers, and the expense apportionment that     *)
(* every render derives from the stored financials.                        *)
(*                                                                         *)
(* Numbers.  The program computes with JavaScript numbers.  The model      *)
(* computes with exact rationals <<n, d>> in lowest terms (d > 0), so a    *)
(* value is compared by plain equality; <<1, 0>> stands for Infinity and   *)
(* <<0, 0>> for NaN.  Rounding of binary floating point is not modelled:   *)
(* an equality established here is the equality the specification states   *)
(* "to floating-point tolerance".                                          *)
(***************************************************************************)
EXTENDS Integers, Sequences, FiniteSets, TLC

VARIABLES mode, person1, person2, expenses, financials, effectPending, now

vars == <<mode, person1, person2, expenses, financials, effectPending, now>>

-----------------------------------------------------------------------------
(* JavaScript number arithmetic, on exact rationals *)

Abs(n) == IF n < 0 THEN -n ELSE n

Sign(n) == IF n < 0 THEN -1 ELSE IF n > 0 THEN 1 ELSE 0

RECURSIVE GCD(_, _)
GCD(a, b) == IF b = 0 THEN a ELSE GCD(b, a % b)

\* n/d in lowest terms; a zero denominator gives Infinity, -Infinity or NaN
Norm(n, d) ==
    IF d = 0 THEN <<Sign(n), 0>>
    ELSE LET s == IF d < 0 THEN -1 ELSE 1
             g == GCD(Abs(n), Abs(d))
         IN  <<(s * n) \div g, (s * d) \div g>>

Rat(n, d) == Norm(n, d)

Num(n) == <<n, 1>>

Zero == Num(0)

Infinity == <<1, 0>>

IsFinite(a) == a[2] # 0

\* a + b
Plus(a, b) ==
    IF ~IsFinite(a) THEN a
    ELSE IF ~IsFinite(b) THEN b
    ELSE LET g == GCD(a[2], b[2])
         IN  Norm(a[1] * (b[2] \div g) + b[1] * (a[2] \div g), (a[2] \div g) * b[2])

Neg(a) == <<-a[1], a[2]>>

\* a - b
Minus(a, b) == Plus(a, Neg(b))

\* a * b
Times(a, b) ==
    LET g1 == GCD(Abs(a[1]), b[2])
        g2 == GCD(Abs(b[1]), a[2])
        h1 == IF g1 = 0 THEN 1 ELSE g1
        h2 == IF g2 = 0 THEN 1 ELSE g2
    IN  Norm((a[1] \div h1) * (b[1] \div h2), (a[2] \div h2) * (b[2] \div h1))

\* a / b
Div(a, b) == Times(a, IF b[1] < 0 THEN <<-b[2], -b[1]>> ELSE <<b[2], b[1]>>)

\* a < b, a <= b, a > b (false when NaN is involved)
Lt(a, b) ==
    /\ a # <<0, 0>>
    /\ b # <<0, 0>>
    /\ IF a[2] = 0 /\ b[2] = 0 THEN a[1] < b[1]
       ELSE IF a[2] = 0 THEN a[1] < 0
       ELSE IF b[2] = 0 THEN b[1] > 0
       ELSE IF a[1] \div a[2] # b[1] \div b[2] THEN a[1] \div a[2] < b[1] \div b[2]
       ELSE (a[1] % a[2]) * b[2] < (b[1] % b[2]) * a[2]

Le(a, b) == a # <<0, 0>> /\ b # <<0, 0>> /\ (a = b \/ Lt(a, b))

Gt(a, b) == Lt(b, a)

MathMin(a, b) == IF a = <<0, 0>> \/ b = <<0, 0>> THEN <<0, 0>> ELSE IF Lt(b, a) THEN b ELSE a

MathMax(a, b) == IF a = <<0, 0>> \/ b = <<0, 0>> THEN <<0, 0>> ELSE IF Lt(a, b) THEN b ELSE a

\* const x = v; Body(x): v is computed once
ConstIn(v, Body(_)) == CHOOSE r \in {Body(x) : x \in {v}} : TRUE

-----------------------------------------------------------------------------
(* Constants based on Philippine regulations *)

SSS_RATE == Rat(45, 1000)

SSS_MAX_SALARY_CREDIT == Num(30000)

PHILHEALTH_RATE == Rat(5, 100)

PHILHEALTH_MIN_SALARY == Num(10000)

PHILHEALTH_MAX_SALARY == Num(100000)

PAGIBIG_RATE == Rat(2, 100)

PAGIBIG_MAX_CONTRIBUTION_SALARY == Num(10000)

TAX_BRACKETS ==
    << [lower |-> Num(0),       upper |-> Num(250000),  rate |-> Zero,         base |-> Num(0)],
       [lower |-> Num(250000),  upper |-> Num(400000),  rate |-> Rat(15, 100), base |-> Num(0)],
       [lower |-> Num(400000),  upper |-> Num(800000),  rate |-> Rat(20, 100), base |-> Num(22500)],
       [lower |-> Num(800000),  upper |-> Num(2000000), rate |-> Rat(25, 100), base |-> Num(102500)],
       [lower |-> Num(2000000), upper |-> Num(8000000), rate |-> Rat(30, 100), base |-> Num(402500)],
       [lower |-> Num(8000000), upper |-> Infinity,     rate |-> Rat(35, 100), base |-> Num(2202500)] >>

\* the threshold written in the tax condition of calculateFinancialsForPerson
TaxExemptLimit == Num(250000)

initialPersonState ==
    [name |-> "Person 1", grossIncome |-> Num(30000), incomeType |-> "monthly",
     taxableAllowance |-> Zero, nonTaxableAllowance |-> Zero,
     applyGovBenefits |-> TRUE, applyNightDiff |-> FALSE,
     nightDiffHoursPerDay |-> Num(2), nightDiffRate |-> Num(10)]

-----------------------------------------------------------------------------
(* calculateFinancialsForPerson *)

workingDaysPerMonth == Num(22)

\* const monthlyGross = incomeType === 'yearly' ? grossIncome / 12 : grossIncome
monthlyGrossOf(p) ==
    IF p.incomeType = "yearly" THEN Div(p.grossIncome, Num(12)) ELSE p.grossIncome

\* hourlyRate, totalMonthlyNightHours, nightDiffPay
nightDiffPayOf(p, monthlyGross) ==
    LET hourlyRate == Div(Div(monthlyGross, workingDaysPerMonth), Num(8))
        totalMonthlyNightHours == Times(p.nightDiffHoursPerDay, workingDaysPerMonth)
    IN  IF p.applyNightDiff
        THEN Times(Times(hourlyRate, Div(p.nightDiffRate, Num(100))), totalMonthlyNightHours)
        ELSE Zero

totalGrossOf(p, monthlyGross, nightDiffPay) ==
    Plus(Plus(Plus(monthlyGross, nightDiffPay), p.taxableAllowance), p.nonTaxableAllowance)

sssOf(applyGovBenefits, monthlyGross) ==
    IF applyGovBenefits
    THEN Times(MathMin(monthlyGross, SSS_MAX_SALARY_CREDIT), SSS_RATE)
    ELSE Zero

\* a slip: the PhilHealth premium charged whatever the toggle says
philhealthOf_Unconditional(applyGovBenefits, monthlyGross) ==
    Div(Times(MathMax(PHILHEALTH_MIN_SALARY, MathMin(monthlyGross, PHILHEALTH_MAX_SALARY)),
              PHILHEALTH_RATE), Num(2))

\* a slip: the whole PhilHealth premium charged, not the employee's half
philhealthOf_FullPremium(applyGovBenefits, monthlyGross) ==
    IF applyGovBenefits
    THEN Times(MathMax(PHILHEALTH_MIN_SALARY, MathMin(monthlyGross, PHILHEALTH_MAX_SALARY)),
               PHILHEALTH_RATE)
    ELSE Zero

\* philhealthSalaryBase, philhealth
philhealthOf(applyGovBenefits, monthlyGross) ==
    LET philhealthSalaryBase ==
            MathMax(PHILHEALTH_MIN_SALARY, MathMin(monthlyGross, PHILHEALTH_MAX_SALARY))
    IN  IF applyGovBenefits
        THEN Div(Times(philhealthSalaryBase, PHILHEALTH_RATE), Num(2))
        ELSE Zero

\* pagibigSalaryBase, pagibig
pagibigOf(applyGovBenefits, monthlyGross) ==
    LET pagibigSalaryBase == MathMin(monthlyGross, PAGIBIG_MAX_CONTRIBUTION_SALARY)
    IN  IF applyGovBenefits THEN Times(pagibigSalaryBase, PAGIBIG_RATE) ELSE Zero

\* a slip: the non-taxable allowance counted as taxable
grossTaxableIncomeOf_WithNonTaxable(p, monthlyGross, nightDiffPay) ==
    Plus(Plus(Plus(monthlyGross, nightDiffPay), p.taxableAllowance), p.nonTaxableAllowance)

grossTaxableIncomeOf(p, monthlyGross, nightDiffPay) ==
    Plus(Plus(monthlyGross, nightDiffPay), p.taxableAllowance)

\* a slip: the upper bound of a bracket excluded
BracketMatches_UpperExclusive(b, x) == Gt(x, b.lower) /\ Lt(x, b.upper)

\* the predicate of TAX_BRACKETS.find
BracketMatches(b, x) == Gt(x, b.lower) /\ Le(x, b.upper)

\* TAX_BRACKETS.find(...): the first matching bracket, as a set of at most one
\* element ({} is undefined)
FindBracket(x) ==
    LET hits == {i \in 1..Len(TAX_BRACKETS) : BracketMatches(TAX_BRACKETS[i], x)}
    IN  IF hits = {} THEN {}
        ELSE {TAX_BRACKETS[CHOOSE i \in hits : \A j \in hits : i <= j]}

\* a slip: the tax owed on the lower brackets (base) left out
annualTaxOf_NoBase(annualTaxableIncome) ==
    LET bracket == FindBracket(annualTaxableIncome)
    IN  IF bracket # {} /\ Gt(annualTaxableIncome, TaxExemptLimit)
        THEN LET b == CHOOSE r \in bracket : TRUE
             IN  Times(Minus(annualTaxableIncome, b.lower), b.rate)
        ELSE Zero

\* a slip: the bracket's rate applied to the whole income, lower bound not taken off
annualTaxOf_LowerNotSubtracted(annualTaxableIncome) ==
    LET bracket == FindBracket(annualTaxableIncome)
    IN  IF bracket # {} /\ Gt(annualTaxableIncome, TaxExemptLimit)
        THEN LET b == CHOOSE r \in bracket : TRUE
             IN  Plus(b.base, Times(annualTaxableIncome, b.rate))
        ELSE Zero

\* let annualTax = 0; if (bracket && annualTaxableIncome > 250000) annualTax = ...
annualTaxOf(annualTaxableIncome) ==
    LET bracket == FindBracket(annualTaxableIncome)
    IN  IF bracket # {} /\ Gt(annualTaxableIncome, TaxExemptLimit)
        THEN LET b == CHOOSE r \in bracket : TRUE
             IN  Plus(b.base, Times(Minus(annualTaxableIncome, b.lower), b.rate))
        ELSE Zero

withholdingTaxOf(applyGovBenefits, annualTax) ==
    IF applyGovBenefits THEN Div(annualTax, Num(12)) ELSE Zero

\* every local of calculateFinancialsForPerson, in the order the body computes
\* them; each const is computed once and then used by the ones below it
PayLocals(p) ==
    ConstIn(monthlyGrossOf(p), LAMBDA monthlyGross :
    ConstIn([nightDiffPay |-> nightDiffPayOf(p, monthlyGross),
             sss |-> sssOf(p.applyGovBenefits, monthlyGross),
             philhealth |-> philhealthOf(p.applyGovBenefits, monthlyGross),
             pagibig |-> pagibigOf(p.applyGovBenefits, monthlyGross)], LAMBDA c :
    ConstIn([totalGross |-> totalGrossOf(p, monthlyGross, c.nightDiffPay),
             totalContributions |-> Plus(Plus(c.sss, c.philhealth), c.pagibig),
             grossTaxableIncome |-> grossTaxableIncomeOf(p, monthlyGross, c.nightDiffPay)],
            LAMBDA t :
    ConstIn(Times(Minus(t.grossTaxableIncome, t.totalContributions), Num(12)),
            LAMBDA annualTaxableIncome :
    ConstIn(annualTaxOf(annualTaxableIncome), LAMBDA annualTax :
    ConstIn(withholdingTaxOf(p.applyGovBenefits, annualTax), LAMBDA withholdingTax :
    ConstIn(Plus(t.totalContributions, withholdingTax), LAMBDA totalDeductions :
        [monthlyGross |-> monthlyGross,
         nightDiffPay |-> c.nightDiffPay,
         totalGross |-> t.totalGross,
         sss |-> c.sss,
         philhealth |-> c.philhealth,
         pagibig |-> c.pagibig,
         totalContributions |-> t.totalContributions,
         grossTaxableIncome |-> t.grossTaxableIncome,
         annualTaxableIncome |-> annualTaxableIncome,
         annualTax |-> annualTax,
         withholdingTax |-> withholdingTax,
         totalDeductions |-> totalDeductions,
         netIncome |-> Minus(t.totalGross, totalDeductions)])))))))

\* the PersonFinancials object the function returns
calculateFinancialsForPerson(p) ==
    ConstIn(PayLocals(p), LAMBDA l :
        [monthlyGross |-> l.monthlyGross,
         nightDiffPay |-> l.nightDiffPay,
         taxableAllowance |-> p.taxableAllowance,
         nonTaxableAllowance |-> p.nonTaxableAllowance,
         totalGross |-> l.totalGross,
         sss |-> l.sss,
         philhealth |-> l.philhealth,
         pagibig |-> l.pagibig,
         totalContributions |-> l.totalContributions,
         taxableIncome |-> Minus(l.grossTaxableIncome, l.totalContributions),
         withholdingTax |-> l.withholdingTax,
         totalDeductions |-> l.totalDeductions,
         netIncome |-> l.netIncome])

-----------------------------------------------------------------------------
(* Bounds of the model *)

\* longest expense list the add handler may build
MaxExpenses == 2

\* last value of the clock Date.now() reads; it starts at FirstClock
MaxClock == 4

\* largest monthly gross of the calculator's input grid, in steps of 5000
MaxGrossStep == 21

-----------------------------------------------------------------------------
(* Application state (the useState cells of App) *)

Modes == {"individual", "couple"}

Assignments == {"equitable", "equal", "person1", "person2"}

initialPerson2State ==
    [initialPersonState EXCEPT !.name = "Person 2", !.grossIncome = Num(25000)]

initialExpenses ==
    << [id |-> 1, name |-> "Rent / Mortgage", amount |-> Zero, assignedTo |-> "equitable"],
       [id |-> 2, name |-> "Utilities (Water, Elec.)", amount |-> Zero, assignedTo |-> "equal"] >>

\* useState<FinancialsState>({person1: {}, person2: {}, household: {}}).  A
\* Partial<PersonFinancials> is a set holding at most one PersonFinancials
\* record ({} is the empty object); household.netIncome is a set holding at
\* most one number ({} is undefined).
initialFinancials == [person1 |-> {}, person2 |-> {}, household |-> [netIncome |-> {}]]

\* the first value Date.now() can return: later than the ids 1 and 2
FirstClock == 3

Init ==
    /\ mode = "individual"
    /\ person1 = initialPersonState
    /\ person2 = initialPerson2State
    /\ expenses = initialExpenses
    /\ financials = initialFinancials
    /\ effectPending = TRUE
    /\ now = FirstClock

-----------------------------------------------------------------------------
(* The recomputation effect: useEffect(..., [person1, person2, mode]) *)

FinancialsFor(m, p1, p2) ==
    ConstIn(calculateFinancialsForPerson(p1), LAMBDA person1Financials :
        IF m = "individual"
        THEN [person1 |-> {person1Financials},
              person2 |-> {},
              household |-> [netIncome |-> {person1Financials.netIncome}]]
        ELSE ConstIn(calculateFinancialsForPerson(p2), LAMBDA person2Financials :
                 [person1 |-> {person1Financials},
                  person2 |-> {person2Financials},
                  household |-> [netIncome |->
                      {Plus(person1Financials.netIncome, person2Financials.netIncome)}]]))

\* React runs the effect after the render that follows a change of one of its
\* dependencies (and after the first render), before it handles the next update.
RecomputeFinancials ==
    /\ effectPending
    /\ financials' = FinancialsFor(mode, person1, person2)
    /\ effectPending' = FALSE
    /\ UNCHANGED <<mode, person1, person2, expenses, now>>

-----------------------------------------------------------------------------
(* Handlers *)

\* a slip: person2 missing from the effect's dependency list
HandlePersonChange_Person2NotWatched(person, field, value) ==
    /\ ~effectPending
    /\ person = 2 => mode = "couple"
    /\ IF person = 1
       THEN person1' = [person1 EXCEPT ![field] = value] /\ UNCHANGED person2
       ELSE person2' = [person2 EXCEPT ![field] = value] /\ UNCHANGED person1
    /\ effectPending' = (person = 1)
    /\ UNCHANGED <<mode, expenses, financials, now>>

\* handlePersonChange(person, field, value): a new person object, so the
\* effect's dependency changes even when the field keeps its value.  The
\* inputs of person 2 are rendered in couple mode only.
HandlePersonChange(person, field, value) ==
    /\ ~effectPending
    /\ person = 2 => mode = "couple"
    /\ IF person = 1
       THEN person1' = [person1 EXCEPT ![field] = value] /\ UNCHANGED person2
       ELSE person2' = [person2 EXCEPT ![field] = value] /\ UNCHANGED person1
    /\ effectPending' = TRUE
    /\ UNCHANGED <<mode, expenses, financials, now>>

\* the mode buttons: setMode(m); setting the mode it already has changes no
\* dependency
SetMode(m) ==
    /\ ~effectPending
    /\ mode' = m
    /\ effectPending' = (m # mode)
    /\ UNCHANGED <<person1, person2, expenses, financials, now>>

\* handleAddExpense: the id is Date.now()
HandleAddExpense ==
    /\ ~effectPending
    /\ Len(expenses) < MaxExpenses
    /\ expenses' = Append(expenses,
                          [id |-> now, name |-> "", amount |-> Zero, assignedTo |-> "equal"])
    /\ UNCHANGED <<mode, person1, person2, financials, effectPending, now>>

\* handleRemoveExpense(id): expenses.filter(e => e.id !== id)
HandleRemoveExpense(id) ==
    /\ ~effectPending
    /\ expenses' = SelectSeq(expenses, LAMBDA e : e.id # id)
    /\ UNCHANGED <<mode, person1, person2, financials, effectPending, now>>

\* handleExpenseChange(id, field, value): expenses.map(e => e.id === id ? {...e, [field]: value} : e).
\* The assignedTo select is rendered in couple mode only.
HandleExpenseChange(id, field, value) ==
    /\ ~effectPending
    /\ field = "assignedTo" => mode = "couple"
    /\ expenses' = [i \in 1..Len(expenses) |->
                       IF expenses[i].id = id
                       THEN [expenses[i] EXCEPT ![field] = value]
                       ELSE expenses[i]]
    /\ UNCHANGED <<mode, person1, person2, financials, effectPending, now>>

\* time passes: Date.now() never decreases
Tick ==
    /\ now < MaxClock
    /\ now' = now + 1
    /\ UNCHANGED <<mode, person1, person2, expenses, financials, effectPending>>

-----------------------------------------------------------------------------
(* Derived state: what every render of App computes from the state *)

\* x || 0 for an optional number: undefined, NaN and 0 give 0
OrZero(opt) ==
    IF opt = {} THEN Zero
    ELSE LET v == CHOOSE x \in opt : TRUE
         IN  IF v = <<0, 0>> THEN Zero ELSE v

\* Number(expense.amount || 0)
AmountOf(e) == OrZero({e.amount})

RECURSIVE SumAmounts(_, _)
SumAmounts(es, acc) ==
    IF es = <<>> THEN acc ELSE SumAmounts(Tail(es), Plus(acc, AmountOf(Head(es))))

totalExpenses == SumAmounts(expenses, Zero)

householdNetIncome == OrZero(financials.household.netIncome)

remainingBalance == Minus(householdNetIncome, totalExpenses)

person1Net == OrZero({f.netIncome : f \in financials.person1})

person2Net == OrZero({f.netIncome : f \in financials.person2})

\* a slip: the two earners' shares swapped
person1ContributionPercent_Swapped ==
    IF Gt(householdNetIncome, Zero) THEN Div(person2Net, householdNetIncome) ELSE Zero

\* a slip: the division left unguarded
person1ContributionPercent_NoGuard == Div(person1Net, householdNetIncome)

person1ContributionPercent ==
    IF Gt(householdNetIncome, Zero) THEN Div(person1Net, householdNetIncome) ELSE Zero

\* a slip: person 1's net income copied into person 2's share
person2ContributionPercent_UsesPerson1 ==
    IF Gt(householdNetIncome, Zero) THEN Div(person1Net, householdNetIncome) ELSE Zero

person2ContributionPercent ==
    IF Gt(householdNetIncome, Zero) THEN Div(person2Net, householdNetIncome) ELSE Zero

\* one pass of the expenses.forEach body over the four accumulators
ApportionStep(acc, expense) ==
    LET amount == AmountOf(expense)
    IN  CASE expense.assignedTo = "person1" ->
               [acc EXCEPT !.person1IndividualExpenses = Plus(@, amount)]
          [] expense.assignedTo = "person2" ->
               [acc EXCEPT !.person2IndividualExpenses = Plus(@, amount)]
          [] expense.assignedTo = "equal" ->
               [acc EXCEPT !.person1SharedContribution = Plus(@, Div(amount, Num(2))),
                           !.person2SharedContribution = Plus(@, Div(amount, Num(2)))]
          [] expense.assignedTo = "equitable" ->
               [acc EXCEPT !.person1SharedContribution =
                               Plus(@, Times(amount, person1ContributionPercent)),
                           !.person2SharedContribution =
                               Plus(@, Times(amount, person2ContributionPercent))]
          [] OTHER -> acc

RECURSIVE ApportionFrom(_, _)
ApportionFrom(es, acc) ==
    IF es = <<>> THEN acc ELSE ApportionFrom(Tail(es), ApportionStep(acc, Head(es)))

\* the accumulators after expenses.forEach
Apportioned ==
    ApportionFrom(expenses,
                  [person1IndividualExpenses |-> Zero, person2IndividualExpenses |-> Zero,
                   person1SharedContribution |-> Zero, person2SharedContribution |-> Zero])

person1TotalResponsibility ==
    Plus(Apportioned.person1IndividualExpenses, Apportioned.person1SharedContribution)

person2TotalResponsibility ==
    Plus(Apportioned.person2IndividualExpenses, Apportioned.person2SharedContribution)

person1Remaining == Minus(person1Net, person1TotalResponsibility)

person2Remaining == Minus(person2Net, person2TotalResponsibility)

-----------------------------------------------------------------------------
(* Inputs the handlers draw from *)

PersonFields ==
    {"name", "grossIncome", "incomeType", "taxableAllowance", "nonTaxableAllowance",
     "applyGovBenefits", "applyNightDiff", "nightDiffHoursPerDay", "nightDiffRate"}

\* values a person's input widgets deliver (numbers arrive through Number(...))
PersonFieldValues(field) ==
    CASE field = "name" -> {"Alex"}
      [] field = "grossIncome" -> {Num(0), Num(10000), Num(30000)}
      [] field = "incomeType" -> {"monthly", "yearly"}
      [] field = "taxableAllowance" -> {Zero}
      [] field = "nonTaxableAllowance" -> {Zero}
      [] field = "applyGovBenefits" -> BOOLEAN
      [] field = "applyNightDiff" -> BOOLEAN
      [] field = "nightDiffHoursPerDay" -> {Num(2)}
      [] field = "nightDiffRate" -> {Num(10)}

\* the fields of an expense row that a computation reads (its name is free
\* text that is only displayed, and edits of it are left out)
ExpenseFields == {"amount", "assignedTo"}

\* values an expense row's widgets deliver
ExpenseFieldValues(field) ==
    CASE field = "amount" -> {Zero, Num(400)}
      [] field = "assignedTo" -> Assignments

ExpenseIds == {expenses[i].id : i \in 1..Len(expenses)}

-----------------------------------------------------------------------------
(* The whole application *)

Next ==
    \/ RecomputeFinancials
    \/ \E person \in {1, 2}, field \in PersonFields :
          \E value \in PersonFieldValues(field) : HandlePersonChange(person, field, value)
    \/ \E m \in Modes : SetMode(m)
    \/ HandleAddExpense
    \/ \E id \in ExpenseIds : HandleRemoveExpense(id)
    \/ \E id \in ExpenseIds, field \in ExpenseFields :
          \E value \in ExpenseFieldValues(field) : HandleExpenseChange(id, field, value)
    \/ Tick

Spec == Init /\ [][Next]_vars

-----------------------------------------------------------------------------
(* The inputs and the recomputation: person changes, mode switches, effect. *)
(* The expense handlers touch neither the effect's dependencies nor the     *)
(* stored financials, and are left to BudgetSpec.                           *)

AppNext ==
    \/ RecomputeFinancials
    \/ \E person \in {1, 2}, field \in PersonFields :
          \E value \in PersonFieldValues(field) : HandlePersonChange(person, field, value)
    \/ \E m \in Modes : SetMode(m)

\* the step that clears effectPending; within AppNext (and Next) only
\* RecomputeFinancials takes it, and it is enabled exactly when the effect is
EffectRuns == effectPending /\ effectPending' = FALSE

\* React always runs a pending effect: weak fairness of the effect's step
AppSpec == Init /\ [][AppNext]_vars /\ WF_effectPending(EffectRuns)

-----------------------------------------------------------------------------
(* The pay calculator as a pure function: person1 is drawn from a grid of   *)
(* inputs and the effect applies calculateFinancialsForPerson to it.        *)

PayGridInputs ==
    [name : {"Person 1"},
     grossIncome : {Num(5000 * k) : k \in 0..MaxGrossStep}
                       \cup {Num(200000), Num(700000)},
     incomeType : {"monthly"},
     taxableAllowance : {Zero, Num(1000)},
     nonTaxableAllowance : {Zero, Num(2000)},
     applyGovBenefits : BOOLEAN,
     applyNightDiff : BOOLEAN,
     nightDiffHoursPerDay : {Num(2)},
     nightDiffRate : {Num(10)}]

\* yearly incomes on, just above and around the tax-bracket boundaries
PayBoundaryInputs ==
    [name : {"Person 1"},
     grossIncome : {Num(0), Num(250000), Num(250001),
                    Num(400000), Num(400001), Num(800000), Num(800001),
                    Num(2000000), Num(2000001), Num(2048600),
                    Num(8000000), Num(8000001), Num(8048600), Num(8048601)},
     incomeType : {"yearly"},
     taxableAllowance : {Zero},
     nonTaxableAllowance : {Zero},
     applyGovBenefits : BOOLEAN,
     applyNightDiff : {FALSE},
     nightDiffHoursPerDay : {Num(2)},
     nightDiffRate : {Num(10)}]

\* one centavo above the first boundary (no contributions: the model's integers
\* hold the exact results only while the denominators stay small)
PayCentavoInputs ==
    {[initialPersonState EXCEPT !.grossIncome = Rat(25000001, 100), !.incomeType = "yearly",
                                !.applyGovBenefits = FALSE]}

PayInputs == PayGridInputs \cup PayBoundaryInputs \cup PayCentavoInputs

PayInit ==
    /\ mode = "individual"
    /\ person1 \in PayInputs
    /\ person2 = initialPerson2State
    /\ expenses = initialExpenses
    /\ financials = initialFinancials
    /\ effectPending = TRUE
    /\ now = FirstClock

PayNext == RecomputeFinancials

PaySpec == PayInit /\ [][PayNext]_vars

-----------------------------------------------------------------------------
(* The expense apportionment: the expense handlers act on the initial list  *)
(* while the persons stay as they are, either as constructed or in one of   *)
(* the settled states the person handlers and the effect lead to.           *)

\* no income with and without benefits, and an income without benefits
BudgetPersons1 ==
    {[initialPersonState EXCEPT !.grossIncome = Num(0), !.applyGovBenefits = b] :
        b \in BOOLEAN}
    \cup {[initialPersonState EXCEPT !.grossIncome = Num(30000), !.applyGovBenefits = FALSE]}

BudgetPersons2 ==
    {[initialPerson2State EXCEPT !.grossIncome = Num(0), !.applyGovBenefits = b] :
        b \in BOOLEAN}
    \cup {[initialPerson2State EXCEPT !.grossIncome = Num(10000), !.applyGovBenefits = FALSE]}

BudgetInit ==
    \/ Init
    \/ /\ mode \in Modes
       /\ person1 \in BudgetPersons1
       /\ person2 \in BudgetPersons2
       /\ expenses = initialExpenses
       /\ financials = FinancialsFor(mode, person1, person2)
       /\ effectPending = FALSE
       /\ now = FirstClock

BudgetNext ==
    \/ RecomputeFinancials
    \/ HandleAddExpense
    \/ \E id \in ExpenseIds : HandleRemoveExpense(id)
    \/ \E id \in ExpenseIds, field \in ExpenseFields :
          \E value \in ExpenseFieldValues(field) : HandleExpenseChange(id, field, value)
    \/ Tick

BudgetSpec == BudgetInit /\ [][BudgetNext]_vars

-----------------------------------------------------------------------------
(* The pay calculator on two inputs: person1 and person2 are drawn equal    *)
(* but for a gross income that is no smaller for person 2.  The mode is     *)
(* individual, so the effect applies calculateFinancialsForPerson to        *)
(* person1 only and no household sum of the two net incomes is formed.      *)

\* the calculator's grid with two incomes inside the two highest tax brackets,
\* and the yearly incomes around the bracket boundaries
PairInputs ==
    PayGridInputs
    \cup {[p EXCEPT !.grossIncome = g] : p \in PayGridInputs, g \in {Num(500000), Num(900000)}}
    \cup PayBoundaryInputs

PairInit ==
    /\ mode = "individual"
    /\ person1 \in PairInputs
    /\ person2 \in {q \in PairInputs : /\ [q EXCEPT !.grossIncome = person1.grossIncome] = person1
                                        /\ Le(person1.grossIncome, q.grossIncome)}
    /\ expenses = initialExpenses
    /\ financials = initialFinancials
    /\ effectPending = TRUE
    /\ now = FirstClock

PairNext == RecomputeFinancials

PairSpec == PairInit /\ [][PairNext]_vars

-----------------------------------------------------------------------------
(* Properties of the pay calculator (PaySpec) *)

\* the effect has stored person 1's result
Computed == financials.person1 # {}

\* the PersonFinancials stored for person 1
Result == CHOOSE f \in financials.person1 : TRUE

\* C2: with applyGovBenefits off, every contribution and the withholding tax
\* are zero, total deductions are zero and net income equals total gross
C2_NoBenefitsNoDeductions ==
    (Computed /\ ~person1.applyGovBenefits) =>
        /\ Result.sss = Zero
        /\ Result.philhealth = Zero
        /\ Result.pagibig = Zero
        /\ Result.withholdingTax = Zero
        /\ Result.totalDeductions = Zero
        /\ Result.netIncome = Result.totalGross

C2_Witness ==
    /\ Computed
    /\ ~person1.applyGovBenefits
    /\ person1.applyNightDiff
    /\ Gt(person1.grossIncome, Num(100000))
    /\ Gt(Result.netIncome, Num(100000))

\* C3: the result's fields satisfy the accounting identities, and the reported
\* taxable income leaves the non-taxable allowance out
C3_AccountingIdentities ==
    Computed =>
        /\ Result.netIncome = Minus(Result.totalGross, Result.totalDeductions)
        /\ Result.totalDeductions = Plus(Result.totalContributions, Result.withholdingTax)
        /\ Result.totalContributions =
               Plus(Plus(Result.sss, Result.philhealth), Result.pagibig)
        /\ Result.taxableIncome =
               Minus(Plus(Plus(Result.monthlyGross, Result.nightDiffPay),
                          person1.taxableAllowance),
                     Result.totalContributions)

C3_Witness ==
    /\ Computed
    /\ person1.applyGovBenefits
    /\ person1.applyNightDiff
    /\ Gt(person1.taxableAllowance, Zero)
    /\ Gt(person1.nonTaxableAllowance, Zero)
    /\ Gt(Result.withholdingTax, Zero)

\* C4: whenever monthlyGross <= 0, sss, philhealth, pagibig and withholdingTax
\* are all zero
C4_ZeroGrossZeroDeductions ==
    (Computed /\ Le(Result.monthlyGross, Zero)) =>
        /\ Result.sss = Zero
        /\ Result.philhealth = Zero
        /\ Result.pagibig = Zero
        /\ Result.withholdingTax = Zero

\* the brackets whose range (lower, upper] holds x
BracketsHolding(x) ==
    {i \in 1..Len(TAX_BRACKETS) :
        Lt(TAX_BRACKETS[i].lower, x) /\ Le(x, TAX_BRACKETS[i].upper)}

\* C5: at most one bracket holds the annual taxable income, exactly one when
\* it is positive; the annual tax is 0 up to 250000 and base + (x - lower) * rate
\* of that bracket above it; the withholding tax is a twelfth of it
C5_BracketLookup ==
    LET l == PayLocals(person1)
        x == l.annualTaxableIncome
        holding == BracketsHolding(x)
    IN  /\ Cardinality(holding) <= 1
        /\ Gt(x, Zero) => Cardinality(holding) = 1
        /\ Le(x, Zero) => holding = {}
        /\ Le(x, Num(250000)) => l.annualTax = Zero
        /\ Gt(x, Num(250000)) =>
               \A i \in holding :
                   l.annualTax = Plus(TAX_BRACKETS[i].base,
                                      Times(Minus(x, TAX_BRACKETS[i].lower),
                                            TAX_BRACKETS[i].rate))
        /\ (Computed /\ person1.applyGovBenefits) =>
               Times(Result.withholdingTax, Num(12)) = l.annualTax

\* one centavo above 250000: the tax is 15% of the centavo
C5_Witness ==
    /\ Computed
    /\ PayLocals(person1).annualTaxableIncome = Rat(25000001, 100)
    /\ PayLocals(person1).annualTax = Rat(15, 10000)

\* C6: adjacent brackets meet (upper(N) = lower(N+1)) and the tax at the upper
\* bound of bracket N is base(N+1); the tax the calculator computes on a
\* boundary is the next bracket's base, and above a boundary it grows from
\* there by the next bracket's rate only
C6_BracketContinuity ==
    LET l == PayLocals(person1)
        x == l.annualTaxableIncome
    IN  \A i \in 1..(Len(TAX_BRACKETS) - 1) :
            LET b == TAX_BRACKETS[i]
                n == TAX_BRACKETS[i + 1]
            IN  /\ b.upper = n.lower
                /\ Plus(b.base, Times(Minus(b.upper, b.lower), b.rate)) = n.base
                /\ x = b.upper => l.annualTax = n.base
                /\ (Gt(x, b.upper) /\ Le(x, n.upper)) =>
                       Minus(l.annualTax, annualTaxOf(b.upper)) =
                           Times(Minus(x, b.upper), n.rate)

\* a taxed earner whose annual taxable income is exactly 2000000
C6_Witness ==
    /\ Computed
    /\ person1.applyGovBenefits
    /\ PayLocals(person1).annualTaxableIncome = Num(2000000)
    /\ Times(Result.withholdingTax, Num(12)) = Num(402500)

\* the input of the worked example
IsExampleInput(p) ==
    /\ p.grossIncome = Num(30000)
    /\ p.incomeType = "monthly"
    /\ p.applyGovBenefits
    /\ ~p.applyNightDiff
    /\ p.taxableAllowance = Zero
    /\ p.nonTaxableAllowance = Zero

\* C7: the worked example: 30000 monthly with benefits on gives sss 1350,
\* philhealth 750, pagibig 200, contributions 2300, annual taxable income
\* 332400, annual tax 12360, withholding tax 1030 and net income 26670
C7_WorkedExample ==
    (Computed /\ IsExampleInput(person1)) =>
        /\ Result.monthlyGross = Num(30000)
        /\ Result.totalGross = Num(30000)
        /\ Result.sss = Num(1350)
        /\ Result.philhealth = Num(750)
        /\ Result.pagibig = Num(200)
        /\ Result.totalContributions = Num(2300)
        /\ Result.taxableIncome = Num(27700)
        /\ PayLocals(person1).annualTaxableIncome = Num(332400)
        /\ PayLocals(person1).annualTax = Num(12360)
        /\ Result.withholdingTax = Num(1030)
        /\ Result.totalDeductions = Num(3330)
        /\ Result.netIncome = Num(26670)

C7_Witness == Computed /\ IsExampleInput(person1) /\ Result.netIncome = Num(26670)

-----------------------------------------------------------------------------
(* Properties of the expense apportionment (BudgetSpec) *)

RECURSIVE SumAssignedFrom(_, _)
SumAssignedFrom(es, policy) ==
    IF es = <<>> THEN Zero
    ELSE Plus(IF Head(es).assignedTo = policy THEN AmountOf(Head(es)) ELSE Zero,
              SumAssignedFrom(Tail(es), policy))

\* the sum of the amounts of the expenses assigned by `policy'
SumAssigned(policy) == SumAssignedFrom(expenses, policy)

ResponsibilitySum ==
    LET a == Apportioned
    IN  Plus(Plus(a.person1IndividualExpenses, a.person1SharedContribution),
             Plus(a.person2IndividualExpenses, a.person2SharedContribution))

\* C1 as stated: both earners' total responsibilities always add up to the
\* sum of all expense amounts
C1_ConservationAlways == ResponsibilitySum = totalExpenses

\* C1, amended: they add up to the sum of all expense amounts whenever the
\* household net income is positive; otherwise to the sum of the amounts of
\* the expenses that are not equitable-assigned
C1_Conservation ==
    ResponsibilitySum = IF Gt(householdNetIncome, Zero)
                        THEN totalExpenses
                        ELSE Minus(totalExpenses, SumAssigned("equitable"))

C1_Witness ==
    /\ mode = "couple"
    /\ Gt(householdNetIncome, Zero)
    /\ person1Net # person2Net
    /\ Gt(SumAssigned("equitable"), Zero)
    /\ Gt(SumAssigned("person2"), Zero)
    /\ ResponsibilitySum = Num(800)

\* the only shared expense is one equitable-assigned expense of 400
SingleEquitable400 ==
    \E i \in 1..Len(expenses) :
        /\ expenses[i].assignedTo = "equitable"
        /\ AmountOf(expenses[i]) = Num(400)
        /\ \A j \in (1..Len(expenses)) \ {i} :
               \/ expenses[j].assignedTo \in {"person1", "person2"}
               \/ AmountOf(expenses[j]) = Zero

\* C8 as stated: for every pair of net incomes with net1 = 3 * net2 the
\* equitable expense of 400 splits 300 / 100
C8_ThreeToOneAlways ==
    (person1Net = Times(Num(3), person2Net) /\ SingleEquitable400) =>
        /\ Apportioned.person1SharedContribution = Num(300)
        /\ Apportioned.person2SharedContribution = Num(100)

\* C8, amended: it does whenever the household net income is positive; in
\* general, with a positive household net income and no equal-assigned
\* amounts, the shared contributions are the equitable amounts times
\* net1 / (net1 + net2) and net2 / (net1 + net2)
C8_Proportional ==
    Gt(householdNetIncome, Zero) =>
        LET a == Apportioned
            equitable == SumAssigned("equitable")
        IN  /\ (person1Net = Times(Num(3), person2Net) /\ SingleEquitable400) =>
                   /\ a.person1SharedContribution = Num(300)
                   /\ a.person2SharedContribution = Num(100)
            /\ SumAssigned("equal") = Zero =>
                   /\ a.person1SharedContribution =
                          Div(Times(equitable, person1Net), Plus(person1Net, person2Net))
                   /\ a.person2SharedContribution =
                          Div(Times(equitable, person2Net), Plus(person1Net, person2Net))

C8_Witness ==
    /\ Gt(person2Net, Zero)
    /\ person1Net = Times(Num(3), person2Net)
    /\ SingleEquitable400
    /\ Apportioned.person1SharedContribution = Num(300)
    /\ Apportioned.person2SharedContribution = Num(100)

\* C9: the household net income is net1 + net2; when it is zero or negative
\* both weights are 0, the equitable expenses add nothing to either shared
\* contribution and every derived amount is still a number; when it is
\* positive the weights are net1 / householdNet and net2 / householdNet
C9_DivisionGuard ==
    LET a == Apportioned
        w1 == person1ContributionPercent
        w2 == person2ContributionPercent
        halfOfEqual == Div(SumAssigned("equal"), Num(2))
    IN  /\ householdNetIncome = Plus(person1Net, person2Net)
        /\ ~Gt(householdNetIncome, Zero) =>
               /\ w1 = Zero
               /\ w2 = Zero
               /\ a.person1SharedContribution = halfOfEqual
               /\ a.person2SharedContribution = halfOfEqual
        /\ Gt(householdNetIncome, Zero) =>
               /\ w1 = Div(person1Net, Plus(person1Net, person2Net))
               /\ w2 = Div(person2Net, Plus(person1Net, person2Net))
        /\ \A v \in {w1, w2, a.person1SharedContribution, a.person2SharedContribution,
                     a.person1IndividualExpenses, a.person2IndividualExpenses,
                     remainingBalance} : IsFinite(v)

C9_Witness ==
    /\ mode = "couple"
    /\ Lt(householdNetIncome, Zero)
    /\ SumAssigned("equitable") = Num(400)
    /\ SumAssigned("equal") = Num(400)
    /\ Apportioned.person1SharedContribution = Num(200)

-----------------------------------------------------------------------------
(* Properties of the recomputation (AppSpec) *)

\* the stored financials are the pure computation on the current inputs
Tracked ==
    /\ financials.person1 = {calculateFinancialsForPerson(person1)}
    /\ mode = "individual" =>
           /\ financials.person2 = {}
           /\ financials.household.netIncome =
                  {calculateFinancialsForPerson(person1).netIncome}
    /\ mode = "couple" =>
           /\ financials.person2 = {calculateFinancialsForPerson(person2)}
           /\ financials.household.netIncome =
                  {Plus(calculateFinancialsForPerson(person1).netIncome,
                        calculateFinancialsForPerson(person2).netIncome)}

\* C10: once the effect has run the stored financials are the computation on
\* the current inputs; every change of person1, person2 or mode leaves a
\* recomputation pending, which eventually runs; and a recomputation on
\* inputs the stored financials already match leaves them as they are
C10_DerivedTrackInputs ==
    /\ [](~effectPending => Tracked)
    /\ [][(person1' # person1 \/ person2' # person2 \/ mode' # mode) => effectPending']_vars
    /\ effectPending ~> ~effectPending
    /\ [][(effectPending /\ ~effectPending' /\ Tracked) => financials' = financials]_vars

\* couple mode, person 2 edited, and the recomputation has run
C10_Witness ==
    /\ ~effectPending
    /\ mode = "couple"
    /\ person2.grossIncome # initialPerson2State.grossIncome
    /\ person2.incomeType = "yearly"
    /\ financials.person2 = {calculateFinancialsForPerson(person2)}

-----------------------------------------------------------------------------
(* Properties of the expense list (BudgetSpec) *)

\* C11: no two expenses of the list have the same id, whatever add, remove and
\* change operations have run, when every added expense takes the clock value
\* as its id and the clock never decreases between operations
C11_UniqueIds ==
    \A i, j \in 1..Len(expenses) : expenses[i].id = expenses[j].id => i = j

-----------------------------------------------------------------------------
(* Properties of the pay calculator on two inputs (PairSpec) *)

\* the net income stored for person 1, and the one the function gives person 2
NetIncome1 == (CHOOSE f \in financials.person1 : TRUE).netIncome

NetIncome2 == calculateFinancialsForPerson(person2).netIncome

\* person1 and person2 differ in grossIncome only, and 0 <= person1's <= person2's
DifferInGrossOnly ==
    /\ [person2 EXCEPT !.grossIncome = person1.grossIncome] = person1
    /\ Le(Zero, person1.grossIncome)
    /\ Le(person1.grossIncome, person2.grossIncome)

\* C12: net pay is monotone in gross pay: of two inputs that differ only in
\* grossIncome, 0 <= a <= b, the one with the larger gross income never gets
\* the smaller netIncome, whatever caps, floors and bracket boundaries lie
\* between the two
C12_NetPayMonotone ==
    (Computed /\ DifferInGrossOnly) => Le(NetIncome1, NetIncome2)

\* a pair with benefits on that goes from the fourth tax bracket into the
\* fifth, or one that crosses every cap and every bracket boundary at once
C12_Witness ==
    /\ Computed
    /\ DifferInGrossOnly
    /\ person1.applyGovBenefits
    /\ \/ /\ person1.incomeType = "yearly"
          /\ person1.grossIncome = Num(2048600)
          /\ person2.grossIncome = Num(8000000)
       \/ /\ person1.incomeType = "monthly"
          /\ person1.grossIncome = Num(5000)
          /\ person2.grossIncome = Num(900000)
    /\ Lt(NetIncome1, NetIncome2)

=============================================================================
